---------------------------- MODULE Spec2Model ----------------------------
(***************************************************************************)
(* Model of jni/daemon/bootstages.c: the boot-stage handlers post_fs,      *)
(* post_fs_data and late_start, the module enumeration, the magic-mount    *)
(* node tree (insert_child, construct_tree), the vendor hoist and the      *)
(* materialisation (clone_skeleton, magic_mount).                          *)
(*                                                                         *)
(* Paths are sequences of names; the first element is the name of the      *)
(* tree root ("/system" or "/vendor"), exactly as get_full_path builds     *)
(* them by walking the parent chain.  A node is a record holding its       *)
(* children as a sequence (the code's struct vector), so that the parent   *)
(* of a node is the record that holds it.                                  *)
(*                                                                         *)
(* The environment: what an image holds is chosen when it is mounted, and  *)
(* the live system when a stage first reads it; /proc/mounts always lists  *)
(* /system; symbolic links on the live system resolve; every module ships  *)
(* the scripts of both stages.  A boot runs post_fs, or post_fs_data       *)
(* followed by late_start.                                                 *)
(***************************************************************************)
EXTENDS Naturals, Sequences, FiniteSets

(***************************************************************************)
(* Node status bits and dirent types.                                      *)
(***************************************************************************)
IS_DUMMY  == 1
IS_INTER  == 2
IS_SKEL   == 4
IS_MODULE == 8
IS_VENDOR == 16

DT_DIR == "DIR"
DT_REG == "REG"
DT_LNK == "LNK"

NULL == "NULL"
\* no node (a NULL struct node_entry *), no directory
NoNode == [null |-> TRUE]
NoDir  == [null |-> TRUE]

\* s & b # 0, for a single bit b
HasBit(s, b) == (s \div b) % 2 = 1
\* s | b, for a single bit b
OrBit(s, b) == IF HasBit(s, b) THEN s ELSE s + b

IS_DIR(n) == n.type = DT_DIR
IS_LNK(n) == n.type = DT_LNK
IS_REG(n) == n.type = DT_REG

(***************************************************************************)
(* Bounds of the explored file systems.                                    *)
(***************************************************************************)
\* number of entries below system/ in one module
MaxEntries == 2

\* names directly below /system, and names below those
TopNames   == {"etc", "vendor"}
ChildNames == {"f"}
\* the order in which readdir returns the names of a directory
NameOrder  == <<"etc", "vendor", "f">>

\* paths relative to /system (and to <module>/system)
RelPaths == {<<t>> : t \in TopNames} \cup {<<t, c>> : t \in TopNames, c \in ChildNames}

\* module directories of the image, in readdir order
ModuleOrder == <<"A", "B">>
ModuleNames == {ModuleOrder[i] : i \in 1..Len(ModuleOrder)}


(***************************************************************************)
(* File-system lookups.  A module's system/ tree and the live /system are  *)
(* functions from relative paths to the kind of the entry found there.     *)
(* Module kinds: "none", "reg", "lnk", "dir", and "rdir" for a directory   *)
(* holding a .replace marker.  Live kinds: "none", "reg", "lnk", "dir".    *)
(***************************************************************************)
Kind(fs, rel) == IF rel \in DOMAIN fs THEN fs[rel] ELSE "none"

\* the d_type readdir reports for an entry of that kind
d_type(kind) ==
    CASE kind \in {"dir", "rdir"} -> DT_DIR
      [] kind = "reg" -> DT_REG
      [] kind = "lnk" -> DT_LNK
      [] OTHER -> NULL

\* The live (and the mirror) entry a full path names.  /vendor is either
\* the separate partition that the link /system/vendor points to, or a link
\* to /system/vendor: either way /vendor/x and /system/vendor/x are the
\* same file.
RelOf(path) ==
    IF path[1] = "/vendor" THEN <<"vendor">> \o Tail(path) ELSE Tail(path)

LiveKind(live, path) ==
    IF RelOf(path) = <<>> THEN "dir" ELSE Kind(live, RelOf(path))

\* access(path, F_OK) == 0 on the live system (symbolic links are followed
\* and resolve)
access_live(live, path) == LiveKind(live, path) # "none"

\* the names readdir returns for a directory, given the kinds of its entries
DirEntries(fs, rel) ==
    SelectSeq(NameOrder, LAMBDA n : Kind(fs, rel \o <<n>>) # "none")

(***************************************************************************)
(* Node tree                                                               *)
(***************************************************************************)
NewNode(module, name, type, status) ==
    [module |-> module, name |-> name, type |-> type, status |-> status,
     children |-> <<>>]

(***************************************************************************)
(* The heap of nodes.  A node is known by who allocated it, where and as   *)
(* what: the module (NULL for the root, a dummy, the placeholder), the     *)
(* full path at its allocation (the hoisted tree keeps its /system/vendor  *)
(* paths) and whether it is a dummy, the vendor placeholder or an entry.   *)
(* The heap holds, each in the order of the calls, the nodes allocated and *)
(* not freed (live), the nodes freed (freed), and the nodes allocated      *)
(* while known or freed while not allocated (bad).                         *)
(***************************************************************************)
NormPath(path) ==
    IF path[1] = "/vendor" THEN <<"/system", "vendor">> \o Tail(path) ELSE path

NodeId(node, path) ==
    [module |-> node.module, path |-> NormPath(path),
     tag    |-> IF HasBit(node.status, IS_DUMMY) THEN "dummy"
                ELSE IF HasBit(node.status, IS_VENDOR) THEN "placeholder"
                ELSE "entry"]

EmptyHeap == [live |-> <<>>, freed |-> <<>>, bad |-> <<>>]

InSeq(x, seq) == \E i \in 1..Len(seq) : seq[i] = x

xcalloc(h, id) ==
    IF InSeq(id, h.live) \/ InSeq(id, h.freed)
    THEN [h EXCEPT !.bad = Append(@, id)]
    ELSE [h EXCEPT !.live = Append(@, id)]

free(h, id) ==
    IF InSeq(id, h.live)
    THEN [h EXCEPT !.live = SelectSeq(@, LAMBDA x : x # id),
                   !.freed = Append(@, id)]
    ELSE [h EXCEPT !.bad = Append(@, id)]

destroy_node(h, node, path) == free(h, NodeId(node, path))

RECURSIVE destroy_subtree(_, _, _)
RECURSIVE destroy_children(_, _, _, _)

\* the loop of destroy_subtree, from child i on
destroy_children(h, node, path, i) ==
    IF i > Len(node.children) THEN h
    ELSE destroy_children(
            destroy_subtree(h, node.children[i], path \o <<node.children[i].name>>),
            node, path, i + 1)

destroy_subtree(h, node, path) ==
    destroy_node(destroy_children(h, node, path, 1), node, path)

\* the heap after insert_child(p, c) returned ins, p standing at ppath: the
\* old child went by destroy_subtree, the new node by destroy_node
insert_child_frees(h, ins, c, ppath) ==
    IF ins.gone = NoNode THEN h
    ELSE IF ins.gone = c
    THEN destroy_node(h, c, ppath \o <<c.name>>)
    ELSE destroy_subtree(h, ins.gone, ppath \o <<ins.gone.name>>)

\* index of the first child of p with that name, 0 when there is none
FindChild(p, name) ==
    LET S == {i \in 1..Len(p.children) : p.children[i].name = name}
    IN  IF S = {} THEN 0 ELSE CHOOSE i \in S : \A j \in S : i <= j

\* insert_child with the new node winning a tie (>= for >)
insert_child_tie_new(p, c) ==
    LET i == FindChild(p, c.name) IN
    IF i = 0
    THEN [p |-> [p EXCEPT !.children = Append(@, c)], idx |-> Len(p.children) + 1,
          gone |-> NoNode]
    ELSE IF c.status >= p.children[i].status
         THEN [p |-> [p EXCEPT !.children[i] = c], idx |-> i,
               gone |-> p.children[i]]
         ELSE [p |-> p, idx |-> i, gone |-> c]

\* insert_child that adds the new node next to the old one
insert_child_append(p, c) ==
    [p |-> [p EXCEPT !.children = Append(@, c)], idx |-> Len(p.children) + 1,
     gone |-> NoNode]

\* insert_child that hands the children of the old node to the new one
insert_child_keep_children(p, c) ==
    LET i == FindChild(p, c.name) IN
    IF i = 0
    THEN [p |-> [p EXCEPT !.children = Append(@, c)], idx |-> Len(p.children) + 1,
          gone |-> NoNode]
    ELSE IF c.status > p.children[i].status
         THEN [p |-> [p EXCEPT !.children[i] =
                          [c EXCEPT !.children = p.children[i].children]],
               idx |-> i, gone |-> p.children[i]]
         ELSE [p |-> p, idx |-> i, gone |-> c]

\* insert_child(p, c): the new parent, the index of the child returned, and
\* the node it destroyed: the old child with its subtree (destroy_subtree(e))
\* or the new node (destroy_node(c)), NoNode when it destroyed nothing
insert_child(p, c) ==
    LET i == FindChild(p, c.name) IN
    IF i = 0
    THEN [p |-> [p EXCEPT !.children = Append(@, c)], idx |-> Len(p.children) + 1,
          gone |-> NoNode]
    ELSE IF c.status > p.children[i].status
         THEN [p |-> [p EXCEPT !.children[i] = c], idx |-> i,
               gone |-> p.children[i]]
         ELSE [p |-> p, idx |-> i, gone |-> c]

\* S_ISLNK of the live entry, as the comment of construct_tree states it
\* ("Target file is a symlink")
stat_is_lnk(live, path) == LiveKind(live, path) = "lnk"

\* the status construct_tree gives a new node, and whether the parent is
\* to be cloned
NeedClone(parent, name, type, live, cand) ==
    \/ type = DT_LNK
    \/ ~access_live(live, cand)
    \/ /\ (parent.name # "/system" \/ name # "vendor")
       /\ stat_is_lnk(live, cand)

\* NodeStatus keeping INTER on a directory that is marked MODULE
NodeStatus_module_inter(clone, kind) ==
    IF clone
    THEN (IF d_type(kind) = DT_DIR THEN OrBit(IS_MODULE, IS_INTER) ELSE IS_MODULE)
    ELSE IF d_type(kind) = DT_DIR
         THEN (IF kind = "rdir" THEN IS_MODULE ELSE IS_INTER)
         ELSE IF d_type(kind) = DT_REG THEN IS_MODULE ELSE 0

NodeStatus(clone, kind) ==
    IF clone THEN IS_MODULE
    ELSE IF d_type(kind) = DT_DIR
         THEN (IF kind = "rdir" THEN IS_MODULE ELSE IS_INTER)
         ELSE IF d_type(kind) = DT_REG THEN IS_MODULE ELSE 0

\* parent->status = IS_SKEL, for |=
MarkSkel_assign(parent) == [parent EXCEPT !.status = IS_SKEL]

\* parent->status |= IS_SKEL
MarkSkel(parent) == [parent EXCEPT !.status = OrBit(@, IS_SKEL)]

RECURSIVE construct_tree(_, _, _, _, _, _)
RECURSIVE construct_entries(_, _, _, _, _, _, _)

\* the loop of construct_tree over the entries `names` still to be read:
\* the parent and the heap
construct_entries(module, parent, ppath, mtree, live, names, h) ==
    IF names = <<>> THEN [node |-> parent, heap |-> h]
    ELSE
      LET name  == Head(names)
          kind  == Kind(mtree, Tail(ppath) \o <<name>>)
          cand  == ppath \o <<name>>
          clone == NeedClone(parent, name, d_type(kind), live, cand)
          node  == NewNode(module, name, d_type(kind), NodeStatus(clone, kind))
          p1    == IF clone THEN MarkSkel(parent) ELSE parent
          h1    == xcalloc(h, NodeId(node, cand))
          ins   == insert_child(p1, node)
          h2    == insert_child_frees(h1, ins, node, ppath)
          got   == ins.p.children[ins.idx]
          sub   == IF HasBit(got.status, IS_SKEL) \/ HasBit(got.status, IS_INTER)
                   THEN construct_tree(module, got, cand, mtree, live, h2)
                   ELSE [node |-> got, heap |-> h2]
          p2    == [ins.p EXCEPT !.children[ins.idx] = sub.node]
      IN  construct_entries(module, p2, ppath, mtree, live, Tail(names), sub.heap)

\* construct_tree(module, parent): parent with the module's entries added,
\* and the heap
construct_tree(module, parent, ppath, mtree, live, h) ==
    IF Tail(ppath) # <<>> /\ Kind(mtree, Tail(ppath)) \notin {"dir", "rdir"}
    THEN [node |-> parent, heap |-> h]     \* opendir fails
    ELSE construct_entries(module, parent, ppath, mtree, live,
                           DirEntries(mtree, Tail(ppath)), h)

(***************************************************************************)
(* Materialisation.  Every mount operation is appended to a log; a place   *)
(* is a record naming the directory tree it lies in ("live", "mirror" for  *)
(* MIRRDIR, "dummy" for DUMMDIR, "module" for MOUNTPOINT/<mod>) and its    *)
(* full path.                                                              *)
(***************************************************************************)
Loc(base, mod, path) == [base |-> base, mod |-> mod, path |-> path]
Live(path)   == Loc("live", NULL, path)
Mirror(path) == Loc("mirror", NULL, path)
Dummy(path)  == Loc("dummy", NULL, path)
InModule(mod, path) == Loc("module", mod, path)

Ev(op, src, dst) == [op |-> op, src |-> src, dst |-> dst]
bind_mount(src, dst) == Ev("bind", src, dst)
cp_afc(src, dst)     == Ev("cplink", src, dst)
\* xmkdir / open_new of a placeholder in the skeleton
placeholder(op, dst) == Ev(op, Loc("none", NULL, <<>>), dst)

\* opendir(MIRRDIR <path>) succeeds: the mirror holds a directory there
\* (MIRRDIR/vendor is the vendor partition or a link to MIRRDIR/system/vendor)
mirror_opendir(live, path) ==
    \/ path = <<"/system">>
    \/ path = <<"/vendor">> /\ Kind(live, <<"vendor">>) \in {"dir", "lnk"}
    \/ Len(path) > 1 /\ Kind(live, RelOf(path)) = "dir"

RECURSIVE insert_dummies(_, _, _, _, _)
\* the first loop of clone_skeleton: one dummy per mirror entry
insert_dummies(node, path, live, names, h) ==
    IF names = <<>> THEN [node |-> node, heap |-> h]
    ELSE LET kind  == Kind(live, RelOf(path) \o <<Head(names)>>)
             dummy == NewNode(NULL, Head(names), d_type(kind), IS_DUMMY)
             h1    == xcalloc(h, NodeId(dummy, path \o <<Head(names)>>))
             ins   == insert_child(node, dummy)
         IN  insert_dummies(ins.p, path, live, Tail(names),
                            insert_child_frees(h1, ins, dummy, path))

\* the skeleton directory itself: mkdir_p, and the bind mount of a SKEL node
skeleton_dir(node, path) ==
    <<Ev("mkdir_p", Loc("none", NULL, <<>>), Dummy(path))>>
    \o (IF HasBit(node.status, IS_SKEL)
        THEN <<bind_mount(Dummy(path), Live(path))>> ELSE <<>>)

\* the dummy file or directory created for a child before it is mounted
child_placeholder(child, path) ==
    IF IS_DIR(child) THEN <<placeholder("mkdir", Dummy(path \o <<child.name>>))>>
    ELSE IF IS_REG(child) THEN <<placeholder("touch", Dummy(path \o <<child.name>>))>>
    ELSE <<>>

\* the end of the loop body of clone_skeleton: copy a link, mount the rest
mount_child(child, path, src) ==
    IF IS_LNK(child)
    THEN <<cp_afc(src, Dummy(path \o <<child.name>>))>>
    ELSE <<bind_mount(src, Live(path \o <<child.name>>))>>

RECURSIVE clone_skeleton(_, _, _, _, _)
RECURSIVE clone_children(_, _, _, _, _, _)

\* the second loop of clone_skeleton, from child i on
clone_children(node, path, live, log, i, h) ==
    IF i > Len(node.children) THEN [node |-> node, log |-> log, heap |-> h]
    ELSE
      LET child == node.children[i]
          log1  == log \o child_placeholder(child, path)
      IN
      IF HasBit(child.status, IS_VENDOR)
      THEN clone_children(node, path, live,
              log1 \o (IF IS_LNK(child)
                       THEN <<cp_afc(Mirror(<<"/system", "vendor">>),
                                     Live(<<"/system", "vendor">>))>>
                       ELSE <<>>),
              i + 1, h)
      ELSE IF HasBit(child.status, IS_MODULE)
      THEN clone_children(node, path, live,
              log1 \o mount_child(child, path,
                         InModule(child.module, path \o <<child.name>>)),
              i + 1, h)
      ELSE IF HasBit(child.status, IS_SKEL) \/ HasBit(child.status, IS_INTER)
      THEN LET r == clone_skeleton(child, path \o <<child.name>>, live, log1, h)
           IN  clone_children([node EXCEPT !.children[i] = r.node],
                              path, live, r.log, i + 1, r.heap)
      ELSE IF HasBit(child.status, IS_DUMMY)
      THEN clone_children(node, path, live,
              log1 \o mount_child(child, path, Mirror(path \o <<child.name>>)),
              i + 1, h)
      ELSE \* no status bit: buf2 still holds what the previous child left
           clone_children(node, path, live,
              log1 \o mount_child(child, path, Loc("stale", NULL, <<>>)),
              i + 1, h)

\* clone_skeleton binding the skeleton once its children are in place
clone_skeleton_bind_last(node, path, fs, log, h) ==
    IF ~mirror_opendir(fs, path) THEN [node |-> node, log |-> log, heap |-> h]
    ELSE LET d  == insert_dummies(node, path, fs, DirEntries(fs, RelOf(path)), h)
             r  == clone_children(d.node, path, fs,
                                  Append(log, skeleton_dir(d.node, path)[1]), 1,
                                  d.heap)
         IN  [node |-> r.node,
              log  |-> r.log \o Tail(skeleton_dir(d.node, path)),
              heap |-> r.heap]

\* clone_skeleton(node): the node with its dummies, the log and the heap
clone_skeleton(node, path, live, log, h) ==
    IF ~mirror_opendir(live, path) THEN [node |-> node, log |-> log, heap |-> h]
    ELSE LET d == insert_dummies(node, path, live, DirEntries(live, RelOf(path)), h)
         IN  clone_children(d.node, path, live,
                            log \o skeleton_dir(d.node, path), 1, d.heap)

RECURSIVE magic_mount(_, _, _, _, _)
RECURSIVE magic_children(_, _, _, _, _, _)

magic_children(node, path, live, log, i, h) ==
    IF i > Len(node.children) THEN [node |-> node, log |-> log, heap |-> h]
    ELSE LET r == magic_mount(node.children[i],
                              path \o <<node.children[i].name>>, live, log, h)
         IN  magic_children([node EXCEPT !.children[i] = r.node],
                            path, live, r.log, i + 1, r.heap)

\* magic_mount descending into every INTER node, skeleton or not
magic_mount_inter_first(node, path, fs, log, h) ==
    IF HasBit(node.status, IS_MODULE)
    THEN [node |-> node,
          log  |-> Append(log, bind_mount(InModule(node.module, path), Live(path))),
          heap |-> h]
    ELSE IF HasBit(node.status, IS_INTER)
    THEN magic_children(node, path, fs, log, 1, h)
    ELSE IF HasBit(node.status, IS_SKEL)
    THEN clone_skeleton(node, path, fs, log, h)
    ELSE [node |-> node, log |-> log, heap |-> h]

\* magic_mount cloning every directory it meets, skeleton or not
magic_mount_clone_inter(node, path, fs, log, h) ==
    IF HasBit(node.status, IS_MODULE)
    THEN [node |-> node,
          log  |-> Append(log, bind_mount(InModule(node.module, path), Live(path))),
          heap |-> h]
    ELSE IF HasBit(node.status, IS_SKEL) \/ HasBit(node.status, IS_INTER)
    THEN clone_skeleton(node, path, fs, log, h)
    ELSE [node |-> node, log |-> log, heap |-> h]

\* magic_mount(node): the node (dummies added below skeletons), the log and
\* the heap
magic_mount(node, path, live, log, h) ==
    IF HasBit(node.status, IS_MODULE)
    THEN [node |-> node,
          log  |-> Append(log, bind_mount(InModule(node.module, path), Live(path))),
          heap |-> h]
    ELSE IF HasBit(node.status, IS_SKEL)
    THEN clone_skeleton(node, path, live, log, h)
    ELSE IF HasBit(node.status, IS_INTER)
    THEN magic_children(node, path, live, log, 1, h)
    ELSE [node |-> node, log |-> log, heap |-> h]

(***************************************************************************)
(* Simple mount (post-fs).  The staged tree below CACHEMOUNT is a function *)
(* from full paths to kinds.                                               *)
(***************************************************************************)
RECURSIVE simple_mount(_, _, _, _)
RECURSIVE simple_entries(_, _, _, _, _)

\* the loop of simple_mount without the test of the live target
simple_entries_no_access(path, staged, fs, log, names) ==
    IF names = <<>> THEN log
    ELSE
      LET target == path \o <<Head(names)>>
          log1   == IF d_type(Kind(staged, target)) = DT_DIR
                         THEN simple_mount(target, staged, fs, log)
                    ELSE IF d_type(Kind(staged, target)) = DT_REG
                         THEN Append(log, bind_mount(Loc("cache", NULL, target),
                                                     Live(target)))
                    ELSE log
      IN  simple_entries(path, staged, fs, log1, Tail(names))

simple_entries(path, cache, live, log, names) ==
    IF names = <<>> THEN log
    ELSE
      LET target == path \o <<Head(names)>>
          kind   == Kind(cache, target)
          log1   == IF ~access_live(live, target) THEN log
                    ELSE IF d_type(kind) = DT_DIR
                         THEN simple_mount(target, cache, live, log)
                    ELSE IF d_type(kind) = DT_REG
                         THEN Append(log, bind_mount(Loc("cache", NULL, target),
                                                     Live(target)))
                    ELSE log
      IN  simple_entries(path, cache, live, log1, Tail(names))

simple_mount(path, cache, live, log) ==
    simple_entries(path, cache, live, log,
                   SelectSeq(NameOrder, LAMBDA n : Kind(cache, path \o <<n>>) # "none"))

(***************************************************************************)
(* Image handling, as far as the stage sees it: which image files exist,   *)
(* what merge_img returns and which loop mounts it leaves behind.          *)
(* s_ok, t_ok: mount_image of the source, the target succeeds; d_ok:       *)
(* opendir(SOURCE_TMP) succeeds.                                           *)
(***************************************************************************)
merge_img(images, source, target, s_ok, t_ok, d_ok) ==
    IF source \notin images
    THEN [images |-> images, rc |-> 0, loops |-> {}]
    ELSE IF target \notin images
    THEN [images |-> (images \ {source}) \cup {target}, rc |-> 0, loops |-> {}]
    ELSE IF ~s_ok
    THEN [images |-> images, rc |-> 1, loops |-> {}]
    ELSE IF ~t_ok
    THEN [images |-> images, rc |-> 1, loops |-> {"/dev/source"}]
    ELSE IF ~d_ok
    THEN [images |-> images, rc |-> 1, loops |-> {"/dev/source", "/dev/target"}]
    ELSE [images |-> images \ {source}, rc |-> 0, loops |-> {}]

(***************************************************************************)
(* Image sizes and contents.  An image file has a used and a total size    *)
(* and holds top-level directories; a directory holds the file x in some   *)
(* version, 0 when it has no such file.  get_img_size, resize_img and      *)
(* clone_dir are the helpers of the utilities: resize_img sets the total,  *)
(* clone_dir copies every source file over the target and leaves the       *)
(* target's other files alone.                                             *)
(***************************************************************************)
MaxVersion == 2
ImgDirs == <<".core", "A">>
ImgDirNames == {ImgDirs[i] : i \in 1..Len(ImgDirs)}
Contents == [x : 0..MaxVersion]

\* what stands for an image file that does not exist
AbsentImg == [used |-> 0, total |-> 0, dirs |-> [d \in ImgDirNames |-> NoDir]]

\* round_size with a single block of slack
round_size_one(a) == ((a \div 32) + 1) * 32

round_size(a) == ((a \div 32) + 2) * 32

resize_img(image, n) == [image EXCEPT !.total = n]

\* merge_img: resize target to worst case
merge_resize(s, t) ==
    LET n_total == round_size(s.used + t.used) IN
    IF n_total # t.total THEN resize_img(t, n_total) ELSE t

\* a trim that keeps an image that is large enough
trim_img_grow_only(image) ==
    IF round_size(image.used) > image.total
    THEN resize_img(image, round_size(image.used)) ELSE image

trim_img(image) ==
    LET new_size == round_size(image.used) IN
    IF new_size # image.total THEN resize_img(image, new_size) ELSE image

\* cp -a of one directory over another
clone_dir(sdir, tdir) ==
    IF sdir = NoDir THEN tdir
    ELSE IF tdir = NoDir THEN sdir
    ELSE [x |-> IF sdir.x # 0 THEN sdir.x ELSE tdir.x]

\* the merge loop keeping the old copy of a module
merge_dirs_keep_old(sdirs, tdirs) ==
    [d \in ImgDirNames |-> clone_dir(sdirs[d], tdirs[d])]

\* merge_img: the old copy of every module of the source is removed from
\* the target, then the source is cloned into the target
merge_dirs(sdirs, tdirs) ==
    LET cleaned == [d \in ImgDirNames |->
                      IF sdirs[d] # NoDir /\ d \notin {".", "..", ".core", "lost+found"}
                      THEN NoDir      \* rm_rf; no access -> new module
                      ELSE tdirs[d]]
    IN  [d \in ImgDirNames |-> clone_dir(sdirs[d], cleaned[d])]

\* merge_img on the image files: the rename, the resize, and on success the
\* merged directories and the removal of the source; used_after is what the
\* target has in use once the source is cloned into it
merge_img_files(files, images, source, target, ok, used_after) ==
    IF source \notin images THEN files
    ELSE IF target \notin images
    THEN [files EXCEPT ![target] = files[source], ![source] = AbsentImg]
    ELSE LET t1 == merge_resize(files[source], files[target]) IN
         IF ~ok THEN [files EXCEPT ![target] = t1]
         ELSE [files EXCEPT
                 ![target] = [t1 EXCEPT
                                !.dirs = merge_dirs(files[source].dirs, t1.dirs),
                                !.used = used_after],
                 ![source] = AbsentImg]

(***************************************************************************)
(* Module enumeration (the readdir loop of post_fs_data).  The image holds *)
(* one directory per module: its marker files, whether it has system/, the *)
(* tree below system/ and whether the link <module>/vendor was made.       *)
(***************************************************************************)
\* readdir(MOUNTPOINT): the directories of the image
mountpoint_entries(disk) ==
    <<".core">> \o SelectSeq(ModuleOrder, LAMBDA m : disk[m] # NoDir) \o <<"lost+found">>

RECURSIVE load_modules(_, _, _)

\* st: [disk, module_list, sys_root, has_modules, heap]
\* the scan testing the disable marker before the remove marker
load_modules_disable_first(names, st, fs) ==
    IF names = <<>> THEN st
    ELSE IF Head(names) \in ModuleNames /\ st.disk[Head(names)].disable
    THEN load_modules(Tail(names), st, fs)
    ELSE IF Head(names) \in ModuleNames /\ st.disk[Head(names)].remove
    THEN load_modules(Tail(names), [st EXCEPT !.disk[Head(names)] = NoDir], fs)
    ELSE IF Head(names) \notin ModuleNames
    THEN load_modules(Tail(names), st, fs)
    ELSE
      LET m   == Head(names)
          st1 == [st EXCEPT !.module_list = Append(@, m)]
      IN
      IF ~st1.disk[m].auto_mount \/ ~st1.disk[m].system
      THEN load_modules(Tail(names), st1, fs)
      ELSE load_modules(Tail(names),
              [st1 EXCEPT !.has_modules = TRUE,
                          !.disk[m].vendor_link =
                              (@ \/ Kind(st1.disk[m].tree, <<"vendor">>) # "none"),
                          !.sys_root = construct_tree(m, @, <<"/system">>,
                                           st1.disk[m].tree, fs, st1.heap).node,
                          !.heap = construct_tree(m, st1.sys_root, <<"/system">>,
                                           st1.disk[m].tree, fs, @).heap],
              fs)

load_modules(names, st, live) ==
    IF names = <<>> THEN st
    ELSE
      LET m    == Head(names)
          rest == Tail(names)
      IN
      IF m \in {".", "..", ".core", "lost+found"} THEN load_modules(rest, st, live)
      ELSE IF st.disk[m].remove
      THEN load_modules(rest, [st EXCEPT !.disk[m] = NoDir], live)   \* rm_rf
      ELSE IF st.disk[m].disable
      THEN load_modules(rest, st, live)
      ELSE
        LET st1 == [st EXCEPT !.module_list = Append(@, m)] IN
        IF ~st1.disk[m].auto_mount \/ ~st1.disk[m].system
        THEN load_modules(rest, st1, live)
        ELSE
          LET has_vendor == Kind(st1.disk[m].tree, <<"vendor">>) # "none"
              ct  == construct_tree(m, st1.sys_root, <<"/system">>,
                                    st1.disk[m].tree, live, st1.heap)
              st2 == [st1 EXCEPT
                        !.has_modules = TRUE,
                        !.disk[m].vendor_link = (@ \/ has_vendor),
                        !.sys_root = ct.node,
                        !.heap = ct.heap]
          IN  load_modules(rest, st2, live)

(***************************************************************************)
(* Vendor hoist: the vendor child of the system root is swapped with a     *)
(* placeholder and becomes the root of its own tree.                       *)
(***************************************************************************)
\* the hoist with a placeholder that is always a directory
hoist_vendor_dir(sys, sep) ==
    LET i == FindChild(sys, "vendor") IN
    IF i = 0 THEN [sys_root |-> sys, ven_root |-> NoNode]
    ELSE [sys_root |-> [sys EXCEPT !.children[i] =
                          NewNode(NULL, "vendor", DT_DIR, IS_VENDOR)],
          ven_root |-> [sys.children[i] EXCEPT !.name = "/vendor"]]

\* the hoist that leaves the vendor node in the system tree
hoist_vendor_keep_child(sys, sep) ==
    LET i == FindChild(sys, "vendor") IN
    IF i = 0 THEN [sys_root |-> sys, ven_root |-> NoNode]
    ELSE [sys_root |-> sys,
          ven_root |-> [sys.children[i] EXCEPT !.name = "/vendor"]]

hoist_vendor(sys, seperate_vendor) ==
    LET i == FindChild(sys, "vendor") IN
    IF i = 0 THEN [sys_root |-> sys, ven_root |-> NoNode]
    ELSE [sys_root |-> [sys EXCEPT !.children[i] =
                          NewNode(NULL, "vendor",
                                  IF seperate_vendor THEN DT_LNK ELSE DT_DIR,
                                  IS_VENDOR)],
          ven_root |-> [sys.children[i] EXCEPT !.name = "/vendor"]]

\* the mount points /proc/mounts lists, among /system and /vendor
proc_mounts(live) ==
    {"/system"} \cup (IF Kind(live, <<"vendor">>) = "lnk" THEN {"/vendor"} ELSE {})

(***************************************************************************)
(* The file systems a boot may find.                                       *)
(***************************************************************************)
\* live /system: etc may be missing, a directory or a link; vendor is a
\* directory of /system, or a link to the separate vendor partition (then
\* vendor/x is a file of that partition)
Lives ==
    {l \in [RelPaths -> {"none", "reg", "lnk", "dir"}] :
        /\ l[<<"etc">>] \in {"none", "dir", "lnk"}
        /\ l[<<"vendor">>] \in {"dir", "lnk"}
        /\ \A c \in ChildNames :
              /\ l[<<"etc", c>>] \in {"none", "reg", "lnk"}
              /\ l[<<"etc", c>>] # "none" => l[<<"etc">>] = "dir"
              /\ l[<<"vendor", c>>] \in {"none", "reg"}}

\* the tree below <module>/system
MTrees ==
    {t \in [RelPaths -> {"none", "reg", "lnk", "dir", "rdir"}] :
        \A n \in TopNames, c \in ChildNames :
            /\ t[<<n, c>>] \in {"none", "reg", "lnk"}
            /\ t[<<n, c>>] # "none" => t[<<n>>] \in {"dir", "rdir"}}

EmptyTree == [p \in RelPaths |-> "none"]
\* the tree of a module that takes no part in the magic mount (its tree is
\* never read)
FixedTree == [EmptyTree EXCEPT ![<<"etc">>] = "reg"]

Entries(t) == Cardinality({p \in RelPaths : t[p] # "none"})

Contributes(md) ==
    ~md.remove /\ ~md.disable /\ md.auto_mount /\ md.system

ModDirs ==
    {md \in [remove : BOOLEAN, disable : BOOLEAN, auto_mount : BOOLEAN,
             system : BOOLEAN, tree : MTrees, vendor_link : {FALSE}] :
        /\ Entries(md.tree) <= MaxEntries
        /\ ~md.system => md.tree = EmptyTree
        /\ (md.system /\ ~Contributes(md)) => md.tree = FixedTree}

\* what an existing image holds when it is mounted
Disks == [ModuleNames -> ModDirs \cup {NoDir}]

NoDisk == [m \in ModuleNames |-> NoDir]

\* staged files below CACHEMOUNT
CachePaths == {<<"/system", "etc">>, <<"/system", "etc", "f">>, <<"/vendor", "f">>}
Caches ==
    {c \in [CachePaths -> {"none", "reg", "lnk", "dir"}] :
        /\ c[<<"/system", "etc", "f">>] \in {"none", "reg"}
        /\ c[<<"/system", "etc", "f">>] # "none" => c[<<"/system", "etc">>] = "dir"
        /\ c[<<"/vendor", "f">>] \in {"none", "reg"}}

Images == {"/cache/magisk.img", "/data/magisk_merge.img", "MAINIMG"}

(***************************************************************************)
(* State                                                                   *)
(***************************************************************************)
VARIABLES
    pc,               \* position of the running stage
    uninstaller,      \* UNINSTALLER exists
    disablefile,      \* DISABLEFILE exists
    images,           \* the image files that exist
    merge_rc,         \* what the last merge_img returned
    create_rc,        \* what create_img returned
    magiskloop,       \* "unset", NULL or the loop device of MAINIMG
    mounted,          \* MAINIMG is mounted at MOUNTPOINT
    dev_loops,        \* images still mounted at /dev/source, /dev/target
    disk,             \* the module directories below MOUNTPOINT
    live,             \* the live /system (and its mirror)
    module_list,      \* the active modules
    has_modules,
    sys_root,         \* the tree rooted at /system, NULL before and after
    ven_root,         \* the hoisted vendor tree, or NULL
    seperate_vendor,
    mirrors,          \* what was mounted or linked below MIRRDIR
    mounts,           \* the log of the magic mount
    simple_mounts,    \* the log of the simple mount
    hosts_mounted,    \* HOSTSFILE was bind-mounted over /system/etc/hosts
    ran_common,       \* the <stage>.d directories whose scripts ran
    ran_module,       \* <<module, stage>> for each module script executed
    props,            \* the properties set
    unblock,          \* UNBLOCKFILE exists
    cache,            \* the files staged below CACHEMOUNT
    img,              \* size and module directories of each image file
    heap              \* the nodes allocated, freed, and mishandled

vars == <<pc, uninstaller, disablefile, images, merge_rc, create_rc, magiskloop,
          mounted, dev_loops, disk, live, module_list, has_modules, sys_root,
          ven_root, seperate_vendor, mirrors, mounts, simple_mounts,
          hosts_mounted, ran_common, ran_module, props, unblock, cache,
          img, heap>>

NoLive == [p \in RelPaths |-> "none"]
NoCache == [p \in CachePaths |-> "none"]
\* in the boot stages what an image holds is seen through disk, once mounted
NoImg == [i \in Images |-> AbsentImg]

Init ==
    /\ pc = "idle"
    /\ uninstaller \in BOOLEAN
    /\ disablefile \in BOOLEAN
    /\ images \in SUBSET Images
    /\ merge_rc = 0
    /\ create_rc = 0
    /\ magiskloop = "unset"
    /\ mounted = FALSE
    /\ dev_loops = {}
    /\ disk = NoDisk
    /\ live = NoLive
    /\ module_list = <<>>
    /\ has_modules = FALSE
    /\ sys_root = NoNode
    /\ ven_root = NoNode
    /\ seperate_vendor = FALSE
    /\ mirrors = {}
    /\ mounts = <<>>
    /\ simple_mounts = <<>>
    /\ hosts_mounted = FALSE
    /\ ran_common = {}
    /\ ran_module = {}
    /\ props = {}
    /\ unblock = FALSE
    /\ cache = NoCache
    /\ img = NoImg
    /\ heap = EmptyHeap

(***************************************************************************)
(* Scripts: what is recorded is the scripts that ran.  The scripts live in *)
(* the image, so nothing runs while the image is not mounted.              *)
(***************************************************************************)
exec_common_script(stage, ran, is_mounted) ==
    IF is_mounted THEN ran \cup {stage} ELSE ran

exec_module_script(stage, ran, list, d, is_mounted) ==
    ran \cup {<<list[i], stage>> : i \in {j \in 1..Len(list) :
                                            is_mounted /\ d[list[j]] # NoDir}}

(***************************************************************************)
(* post_fs                                                                 *)
(***************************************************************************)
PostFsIn(lives) ==
    /\ pc = "idle"
    /\ live' \in lives
    /\ cache' \in Caches
    /\ simple_mounts' =
          IF uninstaller \/ disablefile THEN simple_mounts
          ELSE simple_mount(<<"/vendor">>, cache', live',
                  simple_mount(<<"/system">>, cache', live', simple_mounts))
    /\ unblock' = TRUE
    /\ pc' = "post_fs_done"
    /\ UNCHANGED <<img, heap,
                   uninstaller, disablefile, images, merge_rc, create_rc,
                   magiskloop, mounted, dev_loops, disk, module_list,
                   has_modules, sys_root, ven_root, seperate_vendor, mirrors,
                   mounts, hosts_mounted, ran_common, ran_module, props>>

PostFs == PostFsIn(Lives)

(***************************************************************************)
(* post_fs_data                                                            *)
(***************************************************************************)
\* an unblock label that ends the stage without creating UNBLOCKFILE
Unblock_no_file ==
    /\ unblock' = unblock
    /\ pc' = "pfd_done"

\* the unblock label: unblock_boot_process ends the stage
Unblock ==
    /\ unblock' = TRUE
    /\ pc' = "pfd_done"

\* check_data, then the uninstaller
PfdStart ==
    /\ pc = "idle"
    /\ \E data_ok \in BOOLEAN :
          IF ~data_ok \/ uninstaller
          THEN Unblock
          ELSE pc' = "merge_cache" /\ UNCHANGED unblock
    /\ UNCHANGED <<cache, img, heap,
                   uninstaller, disablefile, images, merge_rc, create_rc,
                   magiskloop, mounted, dev_loops, disk, live, module_list,
                   has_modules, sys_root, ven_root, seperate_vendor, mirrors,
                   mounts, simple_mounts, hosts_mounted, ran_common,
                   ran_module, props>>

\* merge_img of one staging image into MAINIMG
PfdMerge ==
    /\ pc \in {"merge_cache", "merge_data"}
    /\ \E s_ok \in BOOLEAN, t_ok \in BOOLEAN, d_ok \in BOOLEAN :
          LET source == IF pc = "merge_cache" THEN "/cache/magisk.img"
                        ELSE "/data/magisk_merge.img"
              r == merge_img(images, source, "MAINIMG", s_ok, t_ok, d_ok)
          IN  /\ images' = r.images
              /\ merge_rc' = r.rc
              /\ dev_loops' = dev_loops \cup r.loops
              /\ IF r.rc # 0
                 THEN Unblock
                 ELSE /\ pc' = (IF pc = "merge_cache" THEN "merge_data" ELSE "mount")
                      /\ UNCHANGED unblock
    /\ UNCHANGED <<cache, img, heap,
                   uninstaller, disablefile, create_rc, magiskloop, mounted,
                   disk, live, module_list, has_modules, sys_root, ven_root,
                   seperate_vendor, mirrors, mounts, simple_mounts,
                   hosts_mounted, ran_common, ran_module, props>>

\* create_img when MAINIMG is missing, then mount_image(MAINIMG, MOUNTPOINT);
\* a new image holds no module
PfdMountImageIn(disks) ==
    /\ pc = "mount"
    /\ \E create_ok \in BOOLEAN, mount_ok \in BOOLEAN :
          LET new_img == "MAINIMG" \notin images IN
          IF new_img /\ ~create_ok
          THEN /\ create_rc' = 1
               /\ Unblock
               /\ UNCHANGED <<images, magiskloop, mounted, disk>>
          ELSE /\ images' = images \cup {"MAINIMG"}
               /\ UNCHANGED create_rc
               /\ IF ~mount_ok
                  THEN /\ magiskloop' = NULL
                       /\ Unblock
                       /\ UNCHANGED <<mounted, disk>>
                  ELSE /\ magiskloop' = "loop"
                       /\ mounted' = TRUE
                       /\ disk' \in (IF new_img THEN {NoDisk} ELSE disks)
                       /\ pc' = "scripts"
                       /\ UNCHANGED unblock
    /\ UNCHANGED <<cache, img, heap,
                   uninstaller, disablefile, merge_rc, dev_loops, live,
                   module_list, has_modules, sys_root, ven_root,
                   seperate_vendor, mirrors, mounts, simple_mounts,
                   hosts_mounted, ran_common, ran_module, props>>

PfdMountImage == PfdMountImageIn(Disks)

\* the common scripts with no core-only test after them
PfdCommonScripts_no_test ==
    /\ pc = "scripts"
    /\ ran_common' = IF mounted THEN ran_common \cup {"post-fs-data"} ELSE ran_common
    /\ pc' = "load"
    /\ UNCHANGED <<cache, img, heap,
                   uninstaller, disablefile, images, merge_rc, create_rc,
                   magiskloop, mounted, dev_loops, disk, live, module_list,
                   has_modules, sys_root, ven_root, seperate_vendor, mirrors,
                   mounts, simple_mounts, hosts_mounted, ran_module, props,
                   unblock>>

\* exec_common_script("post-fs-data"), then the core-only test
PfdCommonScripts ==
    /\ pc = "scripts"
    /\ ran_common' = exec_common_script("post-fs-data", ran_common, mounted)
    /\ pc' = (IF disablefile THEN "core_only" ELSE "load")
    /\ UNCHANGED <<cache, img, heap,
                   uninstaller, disablefile, images, merge_rc, create_rc,
                   magiskloop, mounted, dev_loops, disk, live, module_list,
                   has_modules, sys_root, ven_root, seperate_vendor, mirrors,
                   mounts, simple_mounts, hosts_mounted, ran_module, props,
                   unblock>>

\* the system root is created and every module directory is visited
PfdLoadModulesIn(lives) ==
    /\ pc = "load"
    /\ live' \in lives
    /\ LET root == NewNode(NULL, "/system", NULL, IS_INTER)
           st == load_modules(mountpoint_entries(disk),
                       [disk |-> disk, module_list |-> <<>>,
                        sys_root |-> root,
                        has_modules |-> FALSE,
                        heap |-> xcalloc(heap, NodeId(root, <<"/system">>))],
                       live')
          IN  /\ disk' = st.disk
              /\ module_list' = st.module_list
              /\ sys_root' = st.sys_root
              /\ has_modules' = st.has_modules
              /\ heap' = st.heap
    /\ pc' = "trim"
    /\ UNCHANGED <<cache, img,
                   uninstaller, disablefile, images, merge_rc, create_rc,
                   magiskloop, mounted, dev_loops, ven_root, seperate_vendor,
                   mirrors, mounts, simple_mounts, hosts_mounted, ran_common,
                   ran_module, props, unblock>>

PfdLoadModules == PfdLoadModulesIn(Lives)

\* umount_image, trim_img, and the remount, whose result is not tested
PfdTrimRemount ==
    /\ pc = "trim"
    /\ \E mount_ok \in BOOLEAN :
          /\ mounted' = mount_ok
          /\ magiskloop' = (IF mount_ok THEN "loop" ELSE NULL)
    /\ pc' = (IF has_modules THEN "mirrors" ELSE "cleanup")
    /\ UNCHANGED <<cache, img, heap,
                   uninstaller, disablefile, images, merge_rc, create_rc,
                   dev_loops, disk, live, module_list, has_modules, sys_root,
                   ven_root, seperate_vendor, mirrors, mounts, simple_mounts,
                   hosts_mounted, ran_common, ran_module, props, unblock>>

\* the mirrors are mounted, the vendor node is hoisted
PfdMirrors ==
    /\ pc = "mirrors"
    /\ LET sep == "/vendor" \in proc_mounts(live)
           h   == hoist_vendor(sys_root, sep)
       IN  /\ seperate_vendor' = sep
           /\ mirrors' = {"system"} \cup (IF sep THEN {"vendor"} ELSE {"vendor_link"})
           /\ sys_root' = h.sys_root
           /\ ven_root' = h.ven_root
           /\ heap' = (IF h.ven_root = NoNode THEN heap
                       ELSE xcalloc(heap, NodeId(NewNode(NULL, "vendor", NULL, IS_VENDOR),
                                                 <<"/system", "vendor">>)))
    /\ pc' = "magic"
    /\ UNCHANGED <<cache, img,
                   uninstaller, disablefile, images, merge_rc, create_rc,
                   magiskloop, mounted, dev_loops, disk, live, module_list,
                   has_modules, mounts, simple_mounts, hosts_mounted,
                   ran_common, ran_module, props, unblock>>

\* magic_mount(sys_root); if (ven_root) magic_mount(ven_root)
PfdMagicMount ==
    /\ pc = "magic"
    /\ LET s == magic_mount(sys_root, <<sys_root.name>>, live, mounts, heap)
           v == IF ven_root = NoNode
                THEN [node |-> NoNode, log |-> s.log, heap |-> s.heap]
                ELSE magic_mount(ven_root, <<ven_root.name>>, live, s.log, s.heap)
       IN  /\ sys_root' = s.node
           /\ ven_root' = v.node
           /\ mounts' = v.log
           /\ heap' = v.heap
    /\ pc' = "cleanup"
    /\ UNCHANGED <<cache, img,
                   uninstaller, disablefile, images, merge_rc, create_rc,
                   magiskloop, mounted, dev_loops, disk, live, module_list,
                   has_modules, seperate_vendor, mirrors, simple_mounts,
                   hosts_mounted, ran_common, ran_module, props, unblock>>

\* destroy_subtree of both trees, exec_module_script("post-fs-data")
PfdCleanup ==
    /\ pc = "cleanup"
    /\ sys_root' = NoNode
    /\ ven_root' = NoNode
    /\ heap' = (LET h == destroy_subtree(heap, sys_root, <<sys_root.name>>)
                IN  IF ven_root = NoNode THEN h
                    ELSE destroy_subtree(h, ven_root, <<ven_root.name>>))
    /\ ran_module' = exec_module_script("post-fs-data", ran_module, module_list,
                                        disk, mounted)
    /\ pc' = "core_only"
    /\ UNCHANGED <<cache, img,
                   uninstaller, disablefile, images, merge_rc, create_rc,
                   magiskloop, mounted, dev_loops, disk, live, module_list,
                   has_modules, seperate_vendor, mirrors, mounts,
                   simple_mounts, hosts_mounted, ran_common, props, unblock>>

\* the core_only label: systemless hosts, the hide thread, unblock
PfdFinish ==
    /\ pc = "core_only"
    /\ \E hostsfile \in BOOLEAN :
          hosts_mounted' = (hosts_mounted \/ hostsfile)
    /\ Unblock
    /\ UNCHANGED <<cache, img, heap,
                   uninstaller, disablefile, images, merge_rc, create_rc,
                   magiskloop, mounted, dev_loops, disk, live, module_list,
                   has_modules, sys_root, ven_root, seperate_vendor, mirrors,
                   mounts, simple_mounts, ran_common, ran_module, props>>

(***************************************************************************)
(* late_start                                                              *)
(***************************************************************************)
\* service.d, the core-only return, the module service scripts
LateStart ==
    /\ pc = "pfd_done"
    /\ ran_common' = exec_common_script("service", ran_common, mounted)
    /\ IF disablefile
       THEN /\ props' = props \cup {"ro.magisk.disable"}
            /\ pc' = "late_done"
            /\ UNCHANGED ran_module
       ELSE /\ ran_module' = exec_module_script("service", ran_module,
                                                module_list, disk, mounted)
            /\ pc' = "late_install"
            /\ UNCHANGED props
    /\ UNCHANGED <<cache, img, heap,
                   uninstaller, disablefile, images, merge_rc, create_rc,
                   magiskloop, mounted, dev_loops, disk, live, module_list,
                   has_modules, sys_root, ven_root, seperate_vendor, mirrors,
                   mounts, simple_mounts, hosts_mounted, unblock>>

\* the manager installation (one round of its retry loop when pm reports
\* an error), then the release of the module list
LateInstall ==
    /\ pc = "late_install"
    /\ \E apk \in BOOLEAN, pm_error \in BOOLEAN :
          IF apk /\ pm_error
          THEN UNCHANGED <<pc, module_list>>
          ELSE /\ module_list' = <<>>
               /\ pc' = "late_done"
    /\ UNCHANGED <<cache, img, heap,
                   uninstaller, disablefile, images, merge_rc, create_rc,
                   magiskloop, mounted, dev_loops, disk, live, has_modules,
                   sys_root, ven_root, seperate_vendor, mirrors, mounts,
                   simple_mounts, hosts_mounted, ran_common, ran_module,
                   props, unblock>>

Next ==
    \/ PostFs
    \/ PfdStart
    \/ PfdMerge
    \/ PfdMountImage
    \/ PfdCommonScripts
    \/ PfdLoadModules
    \/ PfdTrimRemount
    \/ PfdMirrors
    \/ PfdMagicMount
    \/ PfdCleanup
    \/ PfdFinish
    \/ LateStart
    \/ LateInstall

Spec == Init /\ [][Next]_vars

\* The daemon runs a stage to its end: every step of a stage returns (the
\* scripts and commands it waits for terminate), so a stage that can take
\* a step takes one.
\* The same stages over fewer images and systems: one module of at most
\* one entry, and a live system with no file below etc and vendor.
FewDisks ==
    {d \in Disks : d["B"] = NoDir /\ (d["A"] # NoDir => Entries(d["A"].tree) <= 1)}
FewLives ==
    {l \in Lives : \A c \in ChildNames :
                      l[<<"etc", c>>] = "none" /\ l[<<"vendor", c>>] = "none"}

NextFew ==
    \/ PostFsIn(FewLives)
    \/ PfdStart
    \/ PfdMerge
    \/ PfdMountImageIn(FewDisks)
    \/ PfdCommonScripts
    \/ PfdLoadModulesIn(FewLives)
    \/ PfdTrimRemount
    \/ PfdMirrors
    \/ PfdMagicMount
    \/ PfdCleanup
    \/ PfdFinish
    \/ LateStart
    \/ LateInstall

FairSpec == Init /\ [][NextFew]_vars /\ WF_vars(NextFew)

(***************************************************************************)
(* Image handling on its own: merge_img and trim_img applied to image      *)
(* files of every size and content of the bounds.                          *)
(***************************************************************************)
Staging == {"/cache/magisk.img", "/data/magisk_merge.img"}

ImgDirSets == [ImgDirNames -> Contents \cup {NoDir}]
StagingFiles ==
    {[used |-> u, total |-> 128, dirs |-> d] : u \in {10, 30}, d \in ImgDirSets}
MainFiles ==
    {[used |-> 20, total |-> 32, dirs |-> d] : d \in ImgDirSets} \cup
    {[used |-> 40, total |-> t, dirs |-> d] : t \in {64, 96, 128}, d \in ImgDirSets}

ImgInit ==
    /\ pc = "img"
    /\ images \in SUBSET Images
    /\ \E a \in StagingFiles, m \in MainFiles :
          img = [i \in Images |->
                    IF i \notin images THEN AbsentImg
                    ELSE IF i \in Staging THEN a ELSE m]
    /\ uninstaller = FALSE /\ disablefile = FALSE
    /\ merge_rc = 0 /\ create_rc = 0
    /\ magiskloop = "unset" /\ mounted = FALSE
    /\ dev_loops = {}
    /\ disk = NoDisk /\ live = NoLive /\ cache = NoCache
    /\ module_list = <<>> /\ has_modules = FALSE
    /\ sys_root = NoNode /\ ven_root = NoNode
    /\ seperate_vendor = FALSE
    /\ mirrors = {} /\ mounts = <<>> /\ simple_mounts = <<>>
    /\ hosts_mounted = FALSE
    /\ ran_common = {} /\ ran_module = {} /\ props = {}
    /\ unblock = FALSE
    /\ heap = EmptyHeap

\* what image handling leaves alone
ImgFrame ==
    UNCHANGED <<uninstaller, disablefile, create_rc, magiskloop, mounted,
                disk, live, cache, module_list, has_modules, sys_root,
                ven_root, seperate_vendor, mirrors, mounts, simple_mounts,
                hosts_mounted, ran_common, ran_module, props, unblock, heap>>

\* merge_img(source, MAINIMG)
ImgMerge ==
    /\ pc = "img"
    /\ \E source \in Staging, s_ok \in BOOLEAN, t_ok \in BOOLEAN,
          d_ok \in BOOLEAN, grows \in BOOLEAN :
          LET r == merge_img(images, source, "MAINIMG", s_ok, t_ok, d_ok)
              u == img["MAINIMG"].used + (IF grows THEN img[source].used ELSE 0)
          IN  /\ images' = r.images
              /\ merge_rc' = r.rc
              /\ dev_loops' = dev_loops \cup r.loops
              /\ img' = merge_img_files(img, images, source, "MAINIMG",
                                        s_ok /\ t_ok /\ d_ok, u)
              /\ pc' = (IF r.rc = 0 THEN "img_merged" ELSE "img_failed")
    /\ ImgFrame

\* trim_img(MAINIMG)
ImgTrim ==
    /\ pc \in {"img", "img_merged"}
    /\ "MAINIMG" \in images
    /\ img' = [img EXCEPT !["MAINIMG"] = trim_img(@)]
    /\ pc' = "img_trimmed"
    /\ UNCHANGED <<images, merge_rc, dev_loops>>
    /\ ImgFrame

ImgNext == ImgMerge \/ ImgTrim

ImgSpec == ImgInit /\ [][ImgNext]_vars

(***************************************************************************)
(* Reading the trees and the log                                           *)
(***************************************************************************)
IsPrefix(a, b) == Len(a) <= Len(b) /\ SubSeq(b, 1, Len(a)) = a
IsProperPrefix(a, b) == Len(a) < Len(b) /\ IsPrefix(a, b)

RECURSIVE NodesOf(_, _)
\* every node of a tree, with its full path
NodesOf(node, path) ==
    {[path |-> path, node |-> node]} \cup
    UNION {NodesOf(node.children[i], path \o <<node.children[i].name>>) :
              i \in 1..Len(node.children)}

TreeOf(root) == IF root = NoNode THEN {} ELSE NodesOf(root, <<root.name>>)
TreeNodes == TreeOf(sys_root) \cup TreeOf(ven_root)

\* the tree is built and not yet hoisted or materialised
Constructed == pc \in {"trim", "mirrors"}

\* the status the entry at rel of a module's tree gets from construct_tree
StatusFor(mtree, rel, fs) ==
    LET parent == [name |-> IF Len(rel) = 1 THEN "/system" ELSE rel[Len(rel) - 1]]
        clone  == NeedClone(parent, rel[Len(rel)], d_type(mtree[rel]), fs,
                            <<"/system">> \o rel)
    IN  NodeStatus(clone, mtree[rel])

\* construct_tree(m, ...) reaches rel: the module takes part in the magic
\* mount, holds an entry there, and every directory above it is one that
\* construct_tree descends into
Reaches(m, rel) ==
    /\ disk[m] # NoDir
    /\ Contributes(disk[m])
    /\ disk[m].tree[rel] # "none"
    /\ \A k \in 1..(Len(rel) - 1) :
          StatusFor(disk[m].tree, SubSeq(rel, 1, k), live) = IS_INTER

\* A and B both contribute rel, with equal status MODULE
EqualContribution(rel) ==
    /\ Reaches("A", rel)
    /\ Reaches("B", rel)
    /\ StatusFor(disk["A"].tree, rel, live) = IS_MODULE
    /\ StatusFor(disk["B"].tree, rel, live) = IS_MODULE

NodeAt(path) == {x \in TreeNodes : x.path = path}

(***************************************************************************)
(* C1 (as claimed): when the modules A and B, enumerated in that order,    *)
(* both contribute the same path with equal status, the node of that path  *)
(* in the constructed tree is MODULE and its module is B, the later one.   *)
(***************************************************************************)
C1_LastWriterWins ==
    Constructed =>
        \A rel \in RelPaths :
            EqualContribution(rel) =>
                /\ NodeAt(<<"/system">> \o rel) # {}
                /\ \A x \in NodeAt(<<"/system">> \o rel) :
                      HasBit(x.node.status, IS_MODULE) /\ x.node.module = "B"

(***************************************************************************)
(* C1 (amended): under the same conditions the node is MODULE and its      *)
(* module is A, the earlier module: insert_child keeps the old node when   *)
(* the new one does not have a strictly higher status.                     *)
(***************************************************************************)
C1_FirstWriterWins ==
    Constructed =>
        \A rel \in RelPaths :
            EqualContribution(rel) =>
                /\ NodeAt(<<"/system">> \o rel) # {}
                /\ \A x \in NodeAt(<<"/system">> \o rel) :
                      HasBit(x.node.status, IS_MODULE) /\ x.node.module = "A"

\* both modules supply the regular file system/etc/f, which exists on the
\* live system, and the tree holds its node
C1_Witness ==
    /\ Constructed
    /\ EqualContribution(<<"etc", "f">>)
    /\ disk["A"].tree[<<"etc", "f">>] = "reg"
    /\ disk["B"].tree[<<"etc", "f">>] = "reg"
    /\ live[<<"etc", "f">>] = "reg"
    /\ NodeAt(<<"/system", "etc", "f">>) # {}

(***************************************************************************)
(* C2 (as claimed): in the constructed tree, if a node has SKEL in its     *)
(* status then every ancestor up to the root has SKEL or MODULE.           *)
(***************************************************************************)
C2_AncestorsSkelOrModule ==
    Constructed =>
        \A x \in TreeNodes, a \in TreeNodes :
            (HasBit(x.node.status, IS_SKEL) /\ IsProperPrefix(a.path, x.path)) =>
                (HasBit(a.node.status, IS_SKEL) \/ HasBit(a.node.status, IS_MODULE))

(***************************************************************************)
(* C2 (amended): in the constructed tree, if a node has SKEL in its status *)
(* then every ancestor up to the root has INTER in its status, alone or    *)
(* together with SKEL, and none is MODULE: SKEL is set on the directory    *)
(* whose entry needs cloning and is not propagated further up.             *)
(***************************************************************************)
C2_AncestorsInter ==
    Constructed =>
        \A x \in TreeNodes, a \in TreeNodes :
            (HasBit(x.node.status, IS_SKEL) /\ IsProperPrefix(a.path, x.path)) =>
                (HasBit(a.node.status, IS_INTER) /\ ~HasBit(a.node.status, IS_MODULE))

\* a skeleton directory below a root that is a skeleton too, and one below
\* a root that is not
C2_Witness ==
    /\ Constructed
    /\ \E x \in TreeNodes, a \in TreeNodes :
          /\ HasBit(x.node.status, IS_SKEL)
          /\ IsProperPrefix(a.path, x.path)
          /\ HasBit(a.node.status, IS_SKEL)

IsMount(e) == e.op \in {"bind", "cplink"}
\* the bind mount of a skeleton directory over its live path
IsSkeletonBind(e) ==
    e.op = "bind" /\ e.src.base = "dummy" /\ e.dst = Live(e.src.path)
LogIdx == 1..Len(mounts)

\* the magic mount has run
MagicDone == mirrors # {} /\ pc # "magic"

(***************************************************************************)
(* C3: the bind mount of a skeleton directory over its live path comes     *)
(* before every bind mount and every link copy of what lies below that     *)
(* directory, at any depth, and every mount of the /system tree comes      *)
(* before every mount of the hoisted /vendor tree.                         *)
(***************************************************************************)
C3_MountOrder ==
    \A i \in LogIdx, j \in LogIdx :
        /\ ( /\ IsSkeletonBind(mounts[i])
             /\ IsMount(mounts[j])
             /\ IsProperPrefix(mounts[i].dst.path, mounts[j].dst.path) ) => i < j
        /\ ( /\ IsMount(mounts[i]) /\ mounts[i].dst.path[1] = "/system"
             /\ IsMount(mounts[j]) /\ mounts[j].dst.path[1] = "/vendor" ) => i < j

\* a skeleton with a bind mount and a link copy below it, followed by a
\* mount of the vendor tree
C3_Witness ==
    /\ MagicDone
    /\ \E i \in LogIdx, j \in LogIdx, k \in LogIdx, v \in LogIdx :
          /\ IsSkeletonBind(mounts[i])
          /\ mounts[j].op = "bind" /\ mounts[k].op = "cplink"
          /\ IsProperPrefix(mounts[i].dst.path, mounts[j].dst.path)
          /\ IsProperPrefix(mounts[i].dst.path, mounts[k].dst.path)
          /\ Len(mounts[j].dst.path) = 3
          /\ mounts[i].dst.path = <<"/system">>
          /\ IsMount(mounts[v]) /\ mounts[v].dst.path[1] = "/vendor"

(***************************************************************************)
(* Vendor hoist                                                            *)
(***************************************************************************)
\* some module taking part in the magic mount holds system/vendor
VendorContributed ==
    \E m \in ModuleNames :
        disk[m] # NoDir /\ Contributes(disk[m]) /\ disk[m].tree[<<"vendor">>] # "none"

\* ... and system/vendor is, or holds, something to mount
VendorHasContent ==
    \E m \in ModuleNames :
        /\ Reaches(m, <<"vendor">>)
        /\ \/ StatusFor(disk[m].tree, <<"vendor">>, live) = IS_MODULE
           \/ \E c \in ChildNames : Reaches(m, <<"vendor", c>>)

SysVendor == <<"/system", "vendor">>

NothingBoundUnderSysVendor ==
    \A i \in LogIdx :
        mounts[i].op = "bind" => ~IsPrefix(SysVendor, mounts[i].dst.path)

HoistedUnderVendor ==
    /\ \A i \in LogIdx :
          (mounts[i].src.base = "module" /\ mounts[i].src.path[1] = "/vendor")
              => mounts[i].dst.path[1] = "/vendor"
    /\ VendorHasContent =>
          \E i \in LogIdx : IsMount(mounts[i]) /\ mounts[i].dst.path[1] = "/vendor"

SysVendorLinkCopied ==
    \E i \in LogIdx : mounts[i] = cp_afc(Mirror(SysVendor), Live(SysVendor))

\* the /system root was materialised as a skeleton
SystemIsSkeleton ==
    \E i \in LogIdx : mounts[i] = bind_mount(Dummy(<<"/system">>), Live(<<"/system">>))

(***************************************************************************)
(* C4 (as claimed): when /vendor is a separate mount and some module       *)
(* contributes under system/vendor, no bind mount has a target under       *)
(* /system/vendor, the hoisted subtree is mounted with targets under       *)
(* /vendor, and /system/vendor holds a link copied from the mirror.        *)
(***************************************************************************)
C4_VendorHoist ==
    (MagicDone /\ seperate_vendor /\ VendorContributed) =>
        /\ NothingBoundUnderSysVendor
        /\ HoistedUnderVendor
        /\ SysVendorLinkCopied

(***************************************************************************)
(* C4 (amended): when /vendor is a separate mount and some module          *)
(* contributes under system/vendor, no bind mount has a target under       *)
(* /system/vendor and the hoisted subtree is mounted with targets under    *)
(* /vendor; /system/vendor holds a link copied from the mirror exactly     *)
(* when the /system root is materialised as a skeleton, and otherwise no   *)
(* operation touches /system/vendor, which stays the live link.            *)
(***************************************************************************)
C4_VendorHoistSkel ==
    (MagicDone /\ seperate_vendor /\ VendorContributed) =>
        /\ NothingBoundUnderSysVendor
        /\ HoistedUnderVendor
        /\ SysVendorLinkCopied <=> SystemIsSkeleton
        /\ \A i \in LogIdx :
              IsPrefix(SysVendor, mounts[i].dst.path) =>
                  mounts[i] = cp_afc(Mirror(SysVendor), Live(SysVendor))

\* separate vendor, a module file mounted below /vendor, and the link
\* copied into the /system skeleton
C4_Witness ==
    /\ MagicDone /\ seperate_vendor /\ VendorContributed
    /\ SysVendorLinkCopied
    /\ \E i \in LogIdx :
          /\ mounts[i].op = "bind" /\ mounts[i].src.base = "module"
          /\ mounts[i].dst.path = <<"/vendor", "f">>

(***************************************************************************)
(* Skeleton completeness                                                   *)
(***************************************************************************)
\* the file a live path names: /vendor is /system/vendor unless it is a
\* separate mount
Resolve(path) ==
    IF ~seperate_vendor /\ path[1] = "/vendor"
    THEN SysVendor \o Tail(path) ELSE path

\* the directories clone_skeleton has materialised
MaterialisedDirs ==
    {mounts[i].dst.path : i \in {k \in LogIdx : mounts[k].op = "mkdir_p"}}

\* something stands at the path: a bind mount landing on it, a link copied
\* to it, or a skeleton materialised for it
Backed(path) ==
    \E i \in LogIdx :
        /\ mounts[i].op \in {"bind", "cplink", "mkdir_p"}
        /\ Resolve(mounts[i].dst.path) = Resolve(path)

(***************************************************************************)
(* C5: once the magic mount is done, every mirror entry of every           *)
(* materialised skeleton directory is backed at its live path: bind        *)
(* mounted (from a module or from the mirror), copied as a link, or        *)
(* recursively materialised.  None is left as an empty placeholder.        *)
(***************************************************************************)
C5_SkeletonComplete ==
    MagicDone =>
        \A D \in MaterialisedDirs :
            \A k \in 1..Len(DirEntries(live, RelOf(D))) :
                Backed(D \o <<DirEntries(live, RelOf(D))[k]>>)

(***************************************************************************)
(* Orphan mounts.  Read while the tree still stands, after magic_mount.    *)
(***************************************************************************)
Materialised == pc = "cleanup" /\ mirrors # {}

StatusAt(path) == (CHOOSE x \in NodeAt(path) : TRUE).node.status
ParentOf(path) == SubSeq(path, 1, Len(path) - 1)
AncPaths(path) == {SubSeq(path, 1, k) : k \in 1..(Len(path) - 1)}

\* the skeleton of the SKEL node at path is bind mounted before event i
SkelMountedBefore(path, i) ==
    /\ HasBit(StatusAt(path), IS_SKEL)
    /\ \E j \in 1..(i - 1) : mounts[j] = bind_mount(Dummy(path), Live(path))

(***************************************************************************)
(* C6 (as claimed): every bind mount is either of a node whose parent is   *)
(* a SKEL node that has already been bind mounted, or of a MODULE node     *)
(* reached from the root through a chain of INTER nodes.                   *)
(***************************************************************************)
C6_NoOrphanMounts ==
    Materialised =>
        \A i \in LogIdx : mounts[i].op = "bind" =>
            LET P == mounts[i].dst.path IN
            \/ Len(P) > 1 /\ SkelMountedBefore(ParentOf(P), i)
            \/ /\ HasBit(StatusAt(P), IS_MODULE)
               /\ \A a \in AncPaths(P) : HasBit(StatusAt(a), IS_INTER)

(***************************************************************************)
(* C6 (amended): every bind mount is either of a MODULE node, or of the    *)
(* skeleton of a SKEL node, whose proper ancestors are all INTER and       *)
(* nothing else, or of a node with a proper ancestor that is a SKEL node   *)
(* whose skeleton has already been bind mounted.                           *)
(***************************************************************************)
C6_MountsAnchored ==
    Materialised =>
        \A i \in LogIdx : mounts[i].op = "bind" =>
            LET P == mounts[i].dst.path IN
            \/ /\ \/ HasBit(StatusAt(P), IS_MODULE)
                  \/ HasBit(StatusAt(P), IS_SKEL) /\ IsSkeletonBind(mounts[i])
               /\ \A a \in AncPaths(P) : StatusAt(a) = IS_INTER
            \/ \E a \in AncPaths(P) : SkelMountedBefore(a, i)

\* a skeleton below the INTER root, with a module file mounted inside it,
\* and a mirror file mounted in an INTER directory of a skeleton
C6_Witness ==
    /\ Materialised
    /\ \/ \E i \in LogIdx, j \in LogIdx :
             /\ mounts[i] = bind_mount(Dummy(<<"/system", "etc">>),
                                       Live(<<"/system", "etc">>))
             /\ StatusAt(<<"/system">>) = IS_INTER
             /\ mounts[j].op = "bind" /\ mounts[j].src.base = "module"
             /\ mounts[j].dst.path = <<"/system", "etc", "f">>
             /\ i < j
       \/ \E i \in LogIdx, j \in LogIdx :
             /\ mounts[i] = bind_mount(Dummy(<<"/system">>), Live(<<"/system">>))
             /\ NodeAt(<<"/system", "etc">>) # {}
             /\ StatusAt(<<"/system", "etc">>) = IS_INTER
             /\ mounts[j] = bind_mount(Mirror(<<"/system", "etc", "f">>),
                                       Live(<<"/system", "etc", "f">>))
             /\ i < j

(***************************************************************************)
(* Image failure                                                           *)
(***************************************************************************)
ImageFailed == merge_rc # 0 \/ create_rc # 0 \/ magiskloop = NULL

(***************************************************************************)
(* C7: a failure to merge, create or mount the image -- the remount after  *)
(* the trim included -- ends the stage: the boot is unblocked and no       *)
(* mirror mount, no magic mount and no module script follows.              *)
(***************************************************************************)
C7_ImageFailureFatal ==
    ImageFailed =>
        /\ pc \in {"pfd_done", "late_install", "late_done"}
        /\ unblock
        /\ mirrors = {}
        /\ mounts = <<>>
        /\ ran_module = {}

(***************************************************************************)
(* C8: every invocation of post_fs or post_fs_data eventually creates      *)
(* UNBLOCKFILE, whichever path it takes (uninstaller, core-only mode, an   *)
(* image failure, or the whole of the magic mount).                        *)
(***************************************************************************)
C8_EventuallyUnblocked == (pc # "idle") ~> unblock

\* post_fs_data went through the magic mount and unblocked the boot
C8_Witness ==
    /\ unblock
    /\ pc = "pfd_done"
    /\ mounts # <<>>

(***************************************************************************)
(* Module enumeration                                                      *)
(***************************************************************************)
Present(d) == {m \in ModuleNames : d[m] # NoDir}
ModulesIn(root) == {x.node.module : x \in TreeOf(root)} \ {NULL}

(***************************************************************************)
(* C9: the scan of MOUNTPOINT leaves in the module list exactly the        *)
(* module directories with neither a remove nor a disable marker; a        *)
(* module with remove is deleted, disable or not; a module with disable    *)
(* only keeps its files and has no node in the tree; and every module      *)
(* with a node in the tree is in the list and has auto_mount and system/.  *)
(***************************************************************************)
C9_ModuleEnumeration ==
    [][pc = "load" =>
        /\ module_list' =
              SelectSeq(ModuleOrder,
                  LAMBDA m : /\ m \in Present(disk)
                             /\ ~disk[m].remove /\ ~disk[m].disable)
        /\ \A m \in Present(disk) :
              /\ disk[m].remove => disk'[m] = NoDir
              /\ (disk[m].disable /\ ~disk[m].remove) =>
                    disk'[m] = disk[m] /\ m \notin ModulesIn(sys_root')
        /\ \A m \in ModulesIn(sys_root') :
              /\ \E i \in 1..Len(module_list') : module_list'[i] = m
              /\ disk[m].auto_mount /\ disk[m].system
    ]_vars

\* the scan is over: B is listed and has nodes in the tree, A is disabled
\* and kept on disk
C9_Witness ==
    /\ pc = "trim"
    /\ module_list = <<"B">>
    /\ disk["A"] # NoDir /\ disk["A"].disable /\ disk["A"].system
    /\ ModulesIn(sys_root) = {"B"}

(***************************************************************************)
(* C10: with DISABLEFILE present, post_fs performs no simple mount;        *)
(* post_fs_data, once the image is mounted, runs the post-fs-data.d        *)
(* scripts, lists no module, builds no tree node, mounts no mirror and     *)
(* performs no magic mount operation; late_start runs the service.d        *)
(* scripts of the mounted image, sets ro.magisk.disable and runs no        *)
(* module script.                                                          *)
(***************************************************************************)
C10_CoreOnly ==
    disablefile =>
        /\ simple_mounts = <<>>
        /\ module_list = <<>> /\ ~has_modules
        /\ sys_root = NoNode /\ ven_root = NoNode
        /\ mirrors = {} /\ mounts = <<>>
        /\ ran_module = {}
        /\ pc = "core_only" => "post-fs-data" \in ran_common
        /\ pc = "late_done" =>
              /\ "ro.magisk.disable" \in props
              /\ mounted => "service" \in ran_common

\* core-only mode ran both stages on a mounted image
C10_Witness ==
    /\ disablefile
    /\ pc = "late_done"
    /\ mounted
    /\ ran_common = {"post-fs-data", "service"}
    /\ "ro.magisk.disable" \in props

(***************************************************************************)
(* Module symbolic links                                                   *)
(***************************************************************************)
\* the nodes of module entries that are symbolic links
ModuleLinks == {x \in TreeNodes : IS_LNK(x.node) /\ HasBit(x.node.status, IS_MODULE)}

\* the status of the directory node a path was inserted into (the hoisted
\* vendor node was inserted into the /system root)
ParentStatus(path) ==
    IF Len(path) = 1 THEN sys_root.status ELSE StatusAt(ParentOf(path))

(***************************************************************************)
(* C11: every module entry that is a symbolic link has a parent marked     *)
(* SKEL, is copied as a link into the skeleton directory of its parent,    *)
(* and is never the source of a bind mount -- an entry named vendor        *)
(* directly under system/ included.                                        *)
(***************************************************************************)
C11_LinksCopied ==
    Materialised =>
        \A x \in ModuleLinks :
            /\ HasBit(ParentStatus(x.path), IS_SKEL)
            /\ \E i \in LogIdx :
                  /\ mounts[i].op = "cplink"
                  /\ mounts[i].src = InModule(x.node.module, x.path)
                  /\ mounts[i].dst.base = "dummy"
            /\ \A i \in LogIdx :
                  mounts[i].op = "bind" =>
                      mounts[i].src # InModule(x.node.module, x.path)

(***************************************************************************)
(* C12: every bind mount of simple_mount has a target that exists on the   *)
(* live system and a staged regular file as its source, and lies below     *)
(* staged directories whose live counterparts all exist.                   *)
(***************************************************************************)
C12_SimpleMountExisting ==
    \A i \in 1..Len(simple_mounts) :
        LET e == simple_mounts[i]
            P == e.dst.path
        IN  /\ e = bind_mount(Loc("cache", NULL, P), Live(P))
            /\ access_live(live, P)
            /\ Kind(cache, P) = "reg"
            /\ \A k \in 2..(Len(P) - 1) :
                  /\ Kind(cache, SubSeq(P, 1, k)) = "dir"
                  /\ access_live(live, SubSeq(P, 1, k))

\* post_fs mounted a staged file two levels down and skipped a staged file
\* with no live counterpart
C12_Witness ==
    /\ pc = "post_fs_done"
    /\ \E i \in 1..Len(simple_mounts) :
          simple_mounts[i].dst.path = <<"/system", "etc", "f">>
    /\ \E q \in CachePaths : cache[q] = "reg" /\ ~access_live(live, q)

(***************************************************************************)
(* Image sizes                                                             *)
(***************************************************************************)
\* the step is trim_img(MAINIMG)
TrimStep == pc \in {"img", "img_merged"} /\ pc' = "img_trimmed"

\* the step is merge_img(s, MAINIMG) with both images present, past the
\* resize: it failed, or it ended with the source removed
MergeStep(s) ==
    /\ pc = "img"
    /\ s \in images /\ "MAINIMG" \in images
    /\ pc' = "img_failed" \/ (pc' = "img_merged" /\ s \notin images')

(***************************************************************************)
(* C13: after trim_img the total of the image is ((used/32)+2)*32; after   *)
(* merge_img of two existing images the total of the target is at least    *)
(* ((used_src + used_dst)/32 + 2)*32, the sizes taken before the merge;    *)
(* either total is a multiple of 32 and greater than the used size.        *)
(***************************************************************************)
C13_ImageSizeBound ==
    [][ /\ TrimStep =>
              LET u == img["MAINIMG"].used
                  t == img'["MAINIMG"].total
              IN  /\ t = ((u \div 32) + 2) * 32
                  /\ t % 32 = 0
                  /\ t > u /\ t > img'["MAINIMG"].used
        /\ \A s \in Staging : MergeStep(s) =>
              LET u == img[s].used + img["MAINIMG"].used
                  t == img'["MAINIMG"].total
              IN  /\ t >= ((u \div 32) + 2) * 32
                  /\ t % 32 = 0
                  /\ t > u /\ t > img'["MAINIMG"].used
      ]_vars

\* a merge of 30 units into 20, then a trim
C13_Witness ==
    /\ pc = "img_trimmed"
    /\ images = {"MAINIMG"}
    /\ img["MAINIMG"].used = 50
    /\ img["MAINIMG"].total = 96

(***************************************************************************)
(* C14 (as claimed): merging a staging image with 10 units used into a     *)
(* MAINIMG with 20 units used and 32 units total resizes MAINIMG to 96     *)
(* units.                                                                  *)
(***************************************************************************)
C14_MergeTo96 ==
    [][\A s \in Staging :
          ( /\ MergeStep(s)
            /\ img[s].used = 10
            /\ img["MAINIMG"].used = 20 /\ img["MAINIMG"].total = 32 )
          => img'["MAINIMG"].total = 96]_vars

(***************************************************************************)
(* C14 (amended): that merge resizes MAINIMG to ((30/32)+2)*32 = 64 units, *)
(* the division being the integer division.                                *)
(***************************************************************************)
C14_MergeTo64 ==
    [][\A s \in Staging :
          ( /\ MergeStep(s)
            /\ img[s].used = 10
            /\ img["MAINIMG"].used = 20 /\ img["MAINIMG"].total = 32 )
          => img'["MAINIMG"].total = 64]_vars

\* 10 units were merged into the 20 of MAINIMG
C14_Witness ==
    /\ pc = "img_merged"
    /\ Staging \cap images # Staging
    /\ img["MAINIMG"].used = 30
    /\ img["MAINIMG"].total = 64

(***************************************************************************)
(* C18: whenever merge_img has returned, with success or with failure,     *)
(* no image is left mounted at /dev/source or /dev/target.                 *)
(***************************************************************************)
C18_LoopsReleased == dev_loops = {}

(***************************************************************************)
(* C20: after a successful merge_img with both images present, the source  *)
(* no longer exists, every module directory of the source is in the        *)
(* target with exactly the content it had in the source, and every module  *)
(* directory of the target that the source does not hold is unchanged.     *)
(***************************************************************************)
C20_MergeContent ==
    [][\A s \in Staging :
          (MergeStep(s) /\ pc' = "img_merged") =>
              /\ s \notin images' /\ img'[s] = AbsentImg
              /\ \A d \in ImgDirNames \ {".core"} :
                    /\ img[s].dirs[d] # NoDir =>
                          img'["MAINIMG"].dirs[d] = img[s].dirs[d]
                    /\ img[s].dirs[d] = NoDir =>
                          img'["MAINIMG"].dirs[d] = img["MAINIMG"].dirs[d]
      ]_vars

\* a merge went through and left module A with a directory without x and
\* the common directory with version 2
C20_Witness ==
    /\ pc = "img_merged"
    /\ Staging \cap images = {}
    /\ img["MAINIMG"].used \in {30, 50, 70}
    /\ img["MAINIMG"].dirs["A"] = [x |-> 0]
    /\ img["MAINIMG"].dirs[".core"] = [x |-> 2]

\* ---------------------------------------------------------------------------
\* C15: collisions in insert_child

\* position of a status in the order MODULE > SKEL > INTER > DUMMY: the
\* highest of the four bits that is set (0 when none is)
Rank(status) ==
    IF HasBit(status, IS_MODULE) THEN 4
    ELSE IF HasBit(status, IS_SKEL) THEN 3
    ELSE IF HasBit(status, IS_INTER) THEN 2
    ELSE IF HasBit(status, IS_DUMMY) THEN 1
    ELSE 0

\* the nodes the callers of insert_child hand to it: a module's entry, as
\* construct_tree builds it, or a dummy, as clone_skeleton builds it
NewChildren ==
    {NewNode(m, n, DT_DIR, IS_INTER) :
        m \in ModuleNames, n \in TopNames \cup ChildNames}
    \cup
    {NewNode(mt[1], n, mt[2], IS_MODULE) :
        mt \in ModuleNames \X {DT_DIR, DT_REG, DT_LNK},
        n \in TopNames \cup ChildNames}
    \cup
    {NewNode(NULL, n, t, IS_DUMMY) :
        n \in TopNames \cup ChildNames, t \in {DT_DIR, DT_REG, DT_LNK}}

\* the children of p carry pairwise distinct names
DistinctNames(p) ==
    \A i, j \in 1..Len(p.children) :
        p.children[i].name = p.children[j].name => i = j

\* insert_child(p, c) on a parent that holds a child e of the name of c
\* leaves one node of that name, c or e, the one of the higher rank when
\* the ranks differ, and nothing of the other
CollisionResolved(p, c) ==
    LET i == FindChild(p, c.name)
        e == p.children[i]
        r == insert_child(p, c)
        w == r.p.children[i]
    IN  i # 0 =>
            /\ Len(r.p.children) = Len(p.children)
            /\ r.idx = i
            /\ \A j \in 1..Len(p.children) :
                  j # i => r.p.children[j] = p.children[j]
            /\ w \in {c, e}
            /\ DistinctNames(r.p)
            /\ (~HasBit(e.status, IS_VENDOR) /\ Rank(c.status) > Rank(e.status))
                  => w = c
            /\ (~HasBit(e.status, IS_VENDOR) /\ Rank(c.status) < Rank(e.status))
                  => w = e
            /\ w = c => NodesOf(w, <<>>) = {[path |-> <<>>, node |-> c]}

(***************************************************************************)
(* C15: for every node p of a tree the program holds and every node c      *)
(* that a caller can hand to insert_child, when p has a child e of the     *)
(* name of c, after insert_child(p, c) exactly one of c and e is a child   *)
(* of p, at the place of e; it is the one of the higher status in the      *)
(* order MODULE > SKEL > INTER > DUMMY; when c wins, nothing of e and its  *)
(* descendants is left; and the children of p, before and after, never     *)
(* hold two nodes of one name.  (The VENDOR placeholder is outside the     *)
(* order; against it the formula asks only that one node remains.)         *)
(***************************************************************************)
C15_InsertChildCollision ==
    (pc \in {"trim", "magic", "cleanup"}) =>
        \A x \in TreeNodes :
            /\ DistinctNames(x.node)
            /\ \A c \in NewChildren : CollisionResolved(x.node, c)

\* module A made the live directory system/etc an INTER node with the file
\* f in it, module B replaces system/etc, and the tree holds B's node
\* without children
C15_Witness ==
    /\ pc = "trim"
    /\ live[<<"etc">>] = "dir"
    /\ Reaches("A", <<"etc", "f">>)
    /\ Reaches("B", <<"etc">>)
    /\ disk["A"].tree[<<"etc">>] = "dir"
    /\ disk["A"].tree[<<"etc", "f">>] = "reg"
    /\ disk["B"].tree[<<"etc">>] = "rdir"
    /\ \E x \in NodeAt(<<"/system", "etc">>) :
          /\ x.node.module = "B"
          /\ HasBit(x.node.status, IS_MODULE)
          /\ x.node.children = <<>>

\* ---------------------------------------------------------------------------
\* C16: MODULE nodes are leaves

\* the mounts and link copies landing on the path
MountsOn(path) == {i \in LogIdx : IsMount(mounts[i]) /\ mounts[i].dst.path = path}

\* everything the materialiser did beneath the path: placeholders,
\* skeletons, bind mounts, link copies
EventsBeneath(path) == {i \in LogIdx : IsProperPrefix(path, mounts[i].dst.path)}

(***************************************************************************)
(* C16: in every state in which a tree stands, while it is built and       *)
(* while and after it is materialised, a node with MODULE in its status    *)
(* has no children; and after the magic mount every MODULE node that is a  *)
(* directory is covered by exactly one mount, a bind mount of the module's *)
(* directory, and no placeholder, skeleton, bind mount or link copy is     *)
(* made beneath its path, whatever the other modules hold under that path. *)
(***************************************************************************)
C16_ModuleLeaves ==
    /\ \A x \in TreeNodes :
          HasBit(x.node.status, IS_MODULE) => x.node.children = <<>>
    /\ Materialised =>
          \A x \in TreeNodes :
              (HasBit(x.node.status, IS_MODULE) /\ IS_DIR(x.node)) =>
                  /\ Cardinality(MountsOn(x.path)) = 1
                  /\ \A i \in MountsOn(x.path) :
                        /\ mounts[i].op = "bind"
                        /\ mounts[i].src.base = "module"
                        /\ mounts[i].src.mod = x.node.module
                  /\ EventsBeneath(x.path) = {}

\* module A holds the file system/etc/f in the live directory system/etc,
\* module B replaces system/etc, and B's directory is bind mounted
C16_Witness ==
    /\ Materialised
    /\ live[<<"etc">>] = "dir"
    /\ Reaches("A", <<"etc", "f">>)
    /\ Reaches("B", <<"etc">>)
    /\ disk["B"].tree[<<"etc">>] = "rdir"
    /\ \E i \in LogIdx :
          /\ mounts[i].op = "bind"
          /\ mounts[i].src.base = "module" /\ mounts[i].src.mod = "B"
          /\ mounts[i].dst = Live(<<"/system", "etc">>)

\* ---------------------------------------------------------------------------
\* C17: dummies

\* the nodes with DUMMY in their status
Dummies == {x \in TreeNodes : HasBit(x.node.status, IS_DUMMY)}

\* the tree is built and clone_skeleton has not run yet
NotYetMaterialised == pc \in {"trim", "mirrors", "magic"}

(***************************************************************************)
(* C17 (as claimed): no tree holds a DUMMY node before the magic mount     *)
(* (construct_tree makes none), and in every tree the parent of every      *)
(* DUMMY node has SKEL in its status.                                      *)
(***************************************************************************)
C17_DummyUnderSkel ==
    /\ NotYetMaterialised => Dummies = {}
    /\ \A x \in Dummies :
          /\ Len(x.path) > 1
          /\ HasBit(StatusAt(ParentOf(x.path)), IS_SKEL)

(***************************************************************************)
(* C17 (amended): no tree holds a DUMMY node before the magic mount, and   *)
(* in every tree the parent of every DUMMY node has SKEL in its status,    *)
(* or is an INTER directory below a node with SKEL: clone_skeleton         *)
(* recurses into the INTER children of a skeleton and gives them dummies   *)
(* too.                                                                    *)
(***************************************************************************)
C17_DummyInsideSkeleton ==
    /\ NotYetMaterialised => Dummies = {}
    /\ \A x \in Dummies :
          /\ Len(x.path) > 1
          /\ \/ HasBit(StatusAt(ParentOf(x.path)), IS_SKEL)
             \/ /\ HasBit(StatusAt(ParentOf(x.path)), IS_INTER)
                /\ \E a \in AncPaths(ParentOf(x.path)) :
                      HasBit(StatusAt(a), IS_SKEL)

\* the /system root is a skeleton, its directory etc is INTER alone, and
\* the live file etc/f got a dummy
C17_Witness ==
    /\ Materialised
    /\ HasBit(StatusAt(<<"/system">>), IS_SKEL)
    /\ NodeAt(<<"/system", "etc">>) # {}
    /\ StatusAt(<<"/system", "etc">>) = IS_INTER
    /\ \E x \in Dummies : x.path = <<"/system", "etc", "f">>

\* ---------------------------------------------------------------------------
\* C19: the nodes on the heap

SeqRange(seq) == {seq[i] : i \in 1..Len(seq)}

\* the addresses of the nodes of a tree
IdsOf(root) == {NodeId(x.node, x.path) : x \in TreeOf(root)}

(***************************************************************************)
(* C19: no node is freed twice or freed without having been allocated,     *)
(* in any state; while a tree stands, the nodes allocated and not freed    *)
(* are exactly the nodes of the /system tree and of the hoisted /vendor    *)
(* tree (a node that lost a collision is freed at once), and no node of    *)
(* the /vendor tree is in the /system tree; once the trees are destroyed   *)
(* no node is left allocated.                                              *)
(***************************************************************************)
C19_NodesFreedOnce ==
    /\ heap.bad = <<>>
    /\ SeqRange(heap.live) = IdsOf(sys_root) \cup IdsOf(ven_root)
    /\ IdsOf(sys_root) \cap IdsOf(ven_root) = {}
    /\ \A i, j \in 1..Len(heap.freed) : heap.freed[i] = heap.freed[j] => i = j
    /\ SeqRange(heap.live) \cap SeqRange(heap.freed) = {}
    /\ sys_root = NoNode => heap.live = <<>>

\* the trees are destroyed; a module node that lost a collision, a dummy,
\* the vendor placeholder and a node of the hoisted tree were freed
C19_Witness ==
    /\ pc = "core_only"
    /\ sys_root = NoNode
    /\ \E a \in SeqRange(heap.freed), b \in SeqRange(heap.freed) :
          a.path = b.path /\ a.module = "A" /\ b.module = "B"
    /\ \E d \in SeqRange(heap.freed) : d.tag = "dummy"
    /\ \E s \in SeqRange(heap.freed) : s.tag = "placeholder"
    /\ \E v \in SeqRange(heap.freed) :
          v.tag = "entry" /\ v.path = <<"/system", "vendor">>

\* ---------------------------------------------------------------------------
\* C21: MODULE is never combined with SKEL or INTER

\* a status of at most one bit
SingleBit(status) == status \in {0, IS_DUMMY, IS_INTER, IS_SKEL, IS_MODULE, IS_VENDOR}

(***************************************************************************)
(* C21: in every state in which a tree stands, while it is built, hoisted  *)
(* and materialised, no node has MODULE in its status together with SKEL   *)
(* or INTER, and the only status of more than one bit is INTER|SKEL; and   *)
(* after the magic mount no node with SKEL or INTER has a module's file or *)
(* directory bound or copied over its path, as a MODULE leaf has.          *)
(***************************************************************************)
C21_ModuleStatusAlone ==
    /\ \A x \in TreeNodes :
          /\ HasBit(x.node.status, IS_MODULE) =>
                (~HasBit(x.node.status, IS_SKEL) /\ ~HasBit(x.node.status, IS_INTER))
          /\ SingleBit(x.node.status) \/ x.node.status = OrBit(IS_INTER, IS_SKEL)
    /\ Materialised =>
          \A x \in TreeNodes :
              (HasBit(x.node.status, IS_SKEL) \/ HasBit(x.node.status, IS_INTER)) =>
                  \A i \in LogIdx :
                      (IsMount(mounts[i]) /\ mounts[i].dst.path = x.path) =>
                          mounts[i].src.base # "module"

\* after the magic mount: /system is INTER|SKEL and its skeleton is bound,
\* system/etc is INTER, and a MODULE node stands below it
C21_Witness ==
    /\ Materialised
    /\ StatusAt(<<"/system">>) = OrBit(IS_INTER, IS_SKEL)
    /\ \E i \in LogIdx :
          mounts[i] = bind_mount(Dummy(<<"/system">>), Live(<<"/system">>))
    /\ NodeAt(<<"/system", "etc">>) # {}
    /\ StatusAt(<<"/system", "etc">>) = IS_INTER
    /\ NodeAt(<<"/system", "etc", "f">>) # {}
    /\ StatusAt(<<"/system", "etc", "f">>) = IS_MODULE

=============================================================================
